---- MODULE Spec2Model ----
(***************************************************************************)
(* dsmr_exporter.py: the collector loop that reads one DSMR telegram per   *)
(* interval, sets the Prometheus gauges from it and, when enabled, writes  *)
(* a batch of points to InfluxDB.  The HTTP listener started by            *)
(* start_http_server scrapes the gauges concurrently with the loop.        *)
(***************************************************************************)
EXTENDS Integers, Sequences, FiniteSets, TLC

(* ---------------------------------------------------------------- bounds *)
\* number of loop iterations explored
MaxCycles == 2

(* ------------------------------------------------------- static tables   *)
\* the Gauge objects declared at module level, keyed by their Python name
GaugeNames ==
  [ P1_MESSAGE_HEADER |-> "p1_message_header",
    ELECTRICITY_USED_TARIFF_1 |-> "electricity_used_tariff_1",
    ELECTRICITY_USED_TARIFF_2 |-> "electricity_used_tariff_2",
    ELECTRICITY_DELIVERED_TARIFF_1 |-> "electricity_delivered_tariff_1",
    ELECTRICITY_DELIVERED_TARIFF_2 |-> "electricity_delivered_tariff_2",
    ELECTRICITY_ACTIVE_TARIFF |-> "electricity_active_tariff",
    CURRENT_ELECTRICITY_USAGE |-> "current_electricity_usage",
    CURRENT_ELECTRICITY_DELIVERY |-> "current_electricity_delivery",
    LONG_POWER_FAILURE_COUNT |-> "long_power_failure_count",
    SHORT_POWER_FAILURE_COUNT |-> "short_power_failure_count",
    VOLTAGE_SAG_L1_COUNT |-> "voltage_sag_l1_count",
    VOLTAGE_SWELL_L1_COUNT |-> "voltage_swell_l1_count",
    INSTANTANEOUS_VOLTAGE_L1 |-> "instantaneous_voltage_l1",
    INSTANTANEOUS_CURRENT_L1 |-> "instantaneous_current_l1",
    INSTANTANEOUS_ACTIVE_POWER_L1_POSITIVE |-> "instantaneous_active_power_l1_positive",
    INSTANTANEOUS_ACTIVE_POWER_L1_NEGATIVE |-> "instantaneous_active_power_l1_negative",
    HOURLY_GAS_METER_READING |-> "hourly_gas_meter_reading" ]

\* the gauges of the catalog (the Python names of the Gauge objects)
Catalog == DOMAIN GaugeNames

\* the order in which post_to_prometheus sets its gauges
PromOrder ==
  << "ELECTRICITY_USED_TARIFF_1", "ELECTRICITY_USED_TARIFF_2",
     "ELECTRICITY_DELIVERED_TARIFF_1", "ELECTRICITY_DELIVERED_TARIFF_2",
     "ELECTRICITY_ACTIVE_TARIFF", "CURRENT_ELECTRICITY_USAGE",
     "CURRENT_ELECTRICITY_DELIVERY", "LONG_POWER_FAILURE_COUNT",
     "SHORT_POWER_FAILURE_COUNT", "VOLTAGE_SAG_L1_COUNT",
     "VOLTAGE_SWELL_L1_COUNT", "INSTANTANEOUS_VOLTAGE_L1",
     "INSTANTANEOUS_CURRENT_L1", "INSTANTANEOUS_ACTIVE_POWER_L1_POSITIVE",
     "INSTANTANEOUS_ACTIVE_POWER_L1_NEGATIVE", "HOURLY_GAS_METER_READING" >>

PromFields == { PromOrder[i] : i \in 1..Len(PromOrder) }

\* the tuple `fields` of post_to_influxdb
fields ==
  { "ELECTRICITY_USED_TARIFF_1", "ELECTRICITY_USED_TARIFF_2",
    "ELECTRICITY_DELIVERED_TARIFF_1", "ELECTRICITY_DELIVERED_TARIFF_2",
    "ELECTRICITY_ACTIVE_TARIFF", "CURRENT_ELECTRICITY_USAGE",
    "CURRENT_ELECTRICITY_DELIVERY", "LONG_POWER_FAILURE_COUNT",
    "VOLTAGE_SAG_L1_COUNT", "VOLTAGE_SAG_L2_COUNT", "VOLTAGE_SAG_L3_COUNT",
    "VOLTAGE_SWELL_L1_COUNT", "VOLTAGE_SWELL_L2_COUNT", "VOLTAGE_SWELL_L3_COUNT",
    "INSTANTANEOUS_ACTIVE_POWER_L1_POSITIVE",
    "INSTANTANEOUS_ACTIVE_POWER_L2_POSITIVE",
    "INSTANTANEOUS_ACTIVE_POWER_L3_POSITIVE",
    "INSTANTANEOUS_ACTIVE_POWER_L1_NEGATIVE",
    "INSTANTANEOUS_ACTIVE_POWER_L2_NEGATIVE",
    "INSTANTANEOUS_ACTIVE_POWER_L3_NEGATIVE",
    "HOURLY_GAS_METER_READING" }

\* the fields of a three-phase V5 telegram, in the order the telegram
\* yields them when iterated (the example telegram plus the L2/L3 fields)
TelegramOrder ==
  << "P1_MESSAGE_HEADER", "P1_MESSAGE_TIMESTAMP",
     "ELECTRICITY_USED_TARIFF_1", "ELECTRICITY_USED_TARIFF_2",
     "ELECTRICITY_DELIVERED_TARIFF_1", "ELECTRICITY_DELIVERED_TARIFF_2",
     "ELECTRICITY_ACTIVE_TARIFF", "CURRENT_ELECTRICITY_USAGE",
     "CURRENT_ELECTRICITY_DELIVERY", "LONG_POWER_FAILURE_COUNT",
     "SHORT_POWER_FAILURE_COUNT",
     "VOLTAGE_SAG_L1_COUNT", "VOLTAGE_SAG_L2_COUNT", "VOLTAGE_SAG_L3_COUNT",
     "VOLTAGE_SWELL_L1_COUNT", "VOLTAGE_SWELL_L2_COUNT", "VOLTAGE_SWELL_L3_COUNT",
     "INSTANTANEOUS_VOLTAGE_L1", "INSTANTANEOUS_CURRENT_L1",
     "INSTANTANEOUS_ACTIVE_POWER_L1_POSITIVE",
     "INSTANTANEOUS_ACTIVE_POWER_L2_POSITIVE",
     "INSTANTANEOUS_ACTIVE_POWER_L3_POSITIVE",
     "INSTANTANEOUS_ACTIVE_POWER_L1_NEGATIVE",
     "INSTANTANEOUS_ACTIVE_POWER_L2_NEGATIVE",
     "INSTANTANEOUS_ACTIVE_POWER_L3_NEGATIVE",
     "HOURLY_GAS_METER_READING" >>

TelegramFields == { TelegramOrder[i] : i \in 1..Len(TelegramOrder) }

\* the fields only a three-phase meter reports
PolyPhaseFields ==
  { "VOLTAGE_SAG_L2_COUNT", "VOLTAGE_SAG_L3_COUNT",
    "VOLTAGE_SWELL_L2_COUNT", "VOLTAGE_SWELL_L3_COUNT",
    "INSTANTANEOUS_ACTIVE_POWER_L2_POSITIVE",
    "INSTANTANEOUS_ACTIVE_POWER_L3_POSITIVE",
    "INSTANTANEOUS_ACTIVE_POWER_L2_NEGATIVE",
    "INSTANTANEOUS_ACTIVE_POWER_L3_NEGATIVE" }

\* the fields a telegram of the model may lack or carry a non-numeric value in
DefectFields ==
  { "ELECTRICITY_USED_TARIFF_1", "SHORT_POWER_FAILURE_COUNT",
    "HOURLY_GAS_METER_READING", "VOLTAGE_SAG_L2_COUNT", "P1_MESSAGE_HEADER" }

DSMR_LOCATION == "Adelaide"

(* ------------------------------------------------------- inputs          *)
\* values of the DEBUG environment variable ("false" is the default)
EnvDebugValues == { "false", "true", "" }

\* values of DSMR_READ_INTERVAL: the int default or an environment string
EnvIntervalValues ==
  { [kind |-> "int", n |-> 60, s |-> ""],
    [kind |-> "str", n |-> 0, s |-> "5"],
    [kind |-> "str", n |-> 0, s |-> "abc"] }

\* command-line values of -d and -i ("absent": option not given)
ArgvDebugValues == { "absent", "true", "False", "maybe" }
ArgvInfluxdbValues == { "absent", "yes", "maybe" }

(* ------------------------------------------------------- pure functions  *)
\* str.lower() on the option strings of the model
Lower(s) == IF s = "False" THEN "false" ELSE s

\* str_to_bool: "True" / "False" / "ValueError"
str_to_bool(value) ==
  IF Lower(value) \in { "false", "f", "0", "no", "n" } THEN "False"
  ELSE IF Lower(value) \in { "true", "t", "1", "yes", "y" } THEN "True"
  ELSE "ValueError"

\* Python truthiness of the DEBUG global: a str is true unless empty
Truthy(v) == IF v.kind = "bool" THEN v.b ELSE v.s /= ""

\* int(DSMR_READ_INTERVAL): can the conversion be made (an int, or a str
\* of digits; of the strings of the model only "5" is one)
IntOk(v) == v.kind = "int" \/ v.s \in { "5" }

\* position of a field in the telegram
Idx(f) == CHOOSE i \in 1..Len(TelegramOrder) : TelegramOrder[i] = f

\* the reading of field f in the n-th telegram decoded by the serial reader
Reading(n, f, bad) ==
  [ numeric |-> (f /= "P1_MESSAGE_TIMESTAMP" /\ f \notin bad),
    value |-> n * Len(TelegramOrder) + Idx(f) ]

\* the n-th telegram, lacking the fields of `absent`
MakeTelegram(n, absent, bad) ==
  [ f \in TelegramFields \ absent |-> Reading(n, f, bad) ]

\* the telegrams the n-th read may return
Telegrams(n) ==
  { MakeTelegram(n, {}, {}), MakeTelegram(n, PolyPhaseFields, {}) }
  \cup { MakeTelegram(n, {f}, {}) : f \in DefectFields }
  \cup { MakeTelegram(n, {}, {f}) : f \in DefectFields }

\* float(x): defined on numeric readings only
FloatOk(r) == r.numeric
Float(r) == r.value

\* a point of the InfluxDB batch
Point(field_name, norm_value) ==
  [ measurement |-> "dsmr", location |-> DSMR_LOCATION,
    field |-> field_name, value |-> norm_value ]

\* the fields of the telegram that post_to_influxdb selects, in order
RECURSIVE Selected(_, _)
Selected(t, i) ==
  IF i > Len(TelegramOrder) THEN << >>
  ELSE IF TelegramOrder[i] \in DOMAIN t /\ TelegramOrder[i] \in fields
       THEN << TelegramOrder[i] >> \o Selected(t, i + 1)
       ELSE Selected(t, i + 1)

\* the for loop of post_to_influxdb: does some float() raise
BuildRaises(t) ==
  \E f \in DOMAIN t : f \in fields /\ ~FloatOk(t[f])

\* the data_points list the for loop builds when no float() raises
BuildPoints(t) ==
  LET sel == Selected(t, 1)
  IN  [ i \in 1..Len(sel) |-> Point(sel[i], Float(t[sel[i]])) ]

\* how many points the for loop appends before it ends or float() raises
RECURSIVE Appended(_, _)
Appended(t, sel) ==
  IF sel = << >> \/ ~FloatOk(t[Head(sel)]) THEN 0
  ELSE 1 + Appended(t, Tail(sel))

NoTelegram == [ f \in {} |-> 0 ]

(* ------------------------------------------------------- state           *)
VARIABLES
  env,          \* the environment: DEBUG and DSMR_READ_INTERVAL
  argv,         \* the command line: the -d and -i options
  args,         \* the parsed arguments (args.debug, args.influxdb)
  DEBUG,        \* the DEBUG global
  pc,           \* position of the main thread
  telegram,     \* the local `telegram` of the loop
  gauges,       \* the value of every Gauge
  promIdx,      \* the next statement of post_to_prometheus
  data_points,  \* the list post_to_influxdb builds
  written,      \* the write calls of the current cycle (their records)
  writeOutcome, \* how the write call of the current cycle ended
  exitCause,    \* why the process terminated
  listening,    \* the metrics listener has been started
  scraped,      \* the gauge values the last scrape returned
  logged,       \* the warning logged in the current cycle
  debugActed,   \* a debug-only statement has run
  reads,        \* calls of get_dsmr_readings so far
  sleeps,       \* completed sleeps so far
  totalWrites,  \* write calls so far
  gaugesPrev,   \* the gauges when the current cycle began
  cycleRead,    \* outcome of the current cycle's read at the top of the try
  failed        \* some read, publication step or write has failed so far

vars == << env, argv, args, DEBUG, pc, telegram, gauges, promIdx, data_points,
           written, writeOutcome, exitCause, listening, scraped, logged,
           debugActed, reads, sleeps, totalWrites, gaugesPrev, cycleRead,
           failed >>

cfgVars == << env, argv >>
histVars == << reads, sleeps, totalWrites, gaugesPrev, cycleRead, failed >>

\* every Gauge starts at 0
InitGauges == [ g \in Catalog |-> 0 ]

\* the state when the module-level statements have run and __main__ begins
Init ==
  /\ env \in [ DEBUG : EnvDebugValues, DSMR_READ_INTERVAL : EnvIntervalValues ]
  /\ argv \in [ debug : ArgvDebugValues, influxdb : ArgvInfluxdbValues ]
  /\ args = [ debug |-> "None", influxdb |-> "None" ]
  /\ DEBUG = [ kind |-> "str", s |-> env.DEBUG, b |-> FALSE ]
  /\ pc = "parse_args"
  /\ telegram = NoTelegram
  /\ gauges = InitGauges
  /\ promIdx = 1
  /\ data_points = << >>
  /\ written = << >>
  /\ writeOutcome = "none"
  /\ exitCause = "none"
  /\ listening = FALSE
  /\ scraped = {}
  /\ logged = "none"
  /\ debugActed = FALSE
  /\ reads = 0
  /\ sleeps = 0
  /\ totalWrites = 0
  /\ gaugesPrev = InitGauges
  /\ cycleRead = "pending"
  /\ failed = FALSE

(* ------------------------------------------------------- startup         *)
\* parser.parse_args(): an option value str_to_bool rejects ends the process
ParseArgs ==
  /\ pc = "parse_args"
  /\ LET d == IF argv.debug = "absent" THEN "None" ELSE str_to_bool(argv.debug)
         i == IF argv.influxdb = "absent" THEN str_to_bool("false")
              ELSE str_to_bool(argv.influxdb)
     IN  IF d = "ValueError" \/ i = "ValueError"
         THEN /\ pc' = "exited"
              /\ exitCause' = "ConfigurationError"
              /\ UNCHANGED args
         ELSE /\ pc' = "start_http_server"
              /\ args' = [ debug |-> d, influxdb |-> i ]
              /\ UNCHANGED exitCause
  /\ UNCHANGED << cfgVars, DEBUG, telegram, gauges, promIdx, data_points,
                  written, writeOutcome, listening, scraped, logged,
                  debugActed, histVars >>

\* start_http_server(): the listener thread starts
StartHttpServer ==
  /\ pc = "start_http_server"
  /\ listening' = TRUE
  /\ pc' = "apply_debug"
  /\ UNCHANGED << cfgVars, args, DEBUG, telegram, gauges, promIdx, data_points,
                  written, writeOutcome, exitCause, scraped, logged,
                  debugActed, histVars >>

\* if args.debug: DEBUG = True
ApplyDebug ==
  /\ pc = "apply_debug"
  /\ DEBUG' = IF args.debug = "True"
              THEN [ kind |-> "bool", s |-> "", b |-> TRUE ]
              ELSE DEBUG
  /\ pc' = "read"
  /\ UNCHANGED << cfgVars, args, telegram, gauges, promIdx, data_points,
                  written, writeOutcome, exitCause, listening, scraped, logged,
                  debugActed, histVars >>

(* ------------------------------------------------------- the loop        *)
\* GetReadings with the failed read not skipping the publication steps:
\* the loop goes on with the telegram it already holds
GetReadingsStale ==
  /\ pc = "read"
  /\ sleeps < MaxCycles
  /\ reads' = reads + 1
  /\ gaugesPrev' = gauges
  /\ written' = << >>
  /\ writeOutcome' = "none"
  /\ data_points' = << >>
  /\ promIdx' = 1
  /\ \/ /\ telegram' \in Telegrams(reads + 1)
        /\ cycleRead' = "ok"
        /\ pc' = "prom"
        /\ logged' = "none"
        /\ UNCHANGED failed
     \/ /\ cycleRead' = "failed"
        /\ pc' = "prom"
        /\ logged' = "dsmr"
        /\ failed' = TRUE
        /\ UNCHANGED telegram
  /\ UNCHANGED << cfgVars, args, DEBUG, gauges, exitCause, listening, scraped,
                  debugActed, sleeps, totalWrites >>

\* telegram = get_dsmr_readings() at the top of the try block
GetReadings ==
  /\ pc = "read"
  /\ sleeps < MaxCycles
  /\ reads' = reads + 1
  /\ gaugesPrev' = gauges
  /\ written' = << >>
  /\ writeOutcome' = "none"
  /\ data_points' = << >>
  /\ promIdx' = 1
  /\ \/ /\ telegram' \in Telegrams(reads + 1)
        /\ cycleRead' = "ok"
        /\ pc' = "prom"
        /\ logged' = "none"
        /\ UNCHANGED failed
     \/ /\ cycleRead' = "failed"
        /\ pc' = "sleep"
        /\ logged' = "dsmr"
        /\ failed' = TRUE
        /\ UNCHANGED telegram
  /\ UNCHANGED << cfgVars, args, DEBUG, gauges, exitCause, listening, scraped,
                  debugActed, sleeps, totalWrites >>

\* PromSet with the error of a statement swallowed inside
\* post_to_prometheus, so that the loop goes on to the time-series step
PromSetSwallow ==
  /\ pc = "prom"
  /\ LET f == PromOrder[promIdx]
     IN  IF f \in DOMAIN telegram /\ FloatOk(telegram[f])
         THEN /\ gauges' = [ gauges EXCEPT ![f] = Float(telegram[f]) ]
              /\ IF promIdx < Len(PromOrder)
                 THEN /\ promIdx' = promIdx + 1
                      /\ pc' = "prom"
                 ELSE /\ promIdx' = 1
                      /\ pc' = IF args.influxdb = "True" THEN "influx" ELSE "sleep"
              /\ UNCHANGED << logged, failed >>
         ELSE /\ pc' = IF args.influxdb = "True" THEN "influx" ELSE "sleep"
              /\ logged' = "dsmr"
              /\ failed' = TRUE
              /\ UNCHANGED << gauges, promIdx >>
  /\ UNCHANGED << cfgVars, args, DEBUG, telegram, data_points, written,
                  writeOutcome, exitCause, listening, scraped, debugActed,
                  reads, sleeps, totalWrites, gaugesPrev, cycleRead >>

\* one statement of post_to_prometheus: GAUGE.set(telegram.FIELD.value)
PromSet ==
  /\ pc = "prom"
  /\ LET f == PromOrder[promIdx]
     IN  IF f \in DOMAIN telegram /\ FloatOk(telegram[f])
         THEN /\ gauges' = [ gauges EXCEPT ![f] = Float(telegram[f]) ]
              /\ IF promIdx < Len(PromOrder)
                 THEN /\ promIdx' = promIdx + 1
                      /\ pc' = "prom"
                 ELSE /\ promIdx' = 1
                      /\ pc' = IF args.influxdb = "True" THEN "influx" ELSE "sleep"
              /\ UNCHANGED << logged, failed >>
         ELSE \* AttributeError or the ValueError/TypeError of float()
              /\ pc' = "sleep"
              /\ logged' = "dsmr"
              /\ failed' = TRUE
              /\ UNCHANGED << gauges, promIdx >>
  /\ UNCHANGED << cfgVars, args, DEBUG, telegram, data_points, written,
                  writeOutcome, exitCause, listening, scraped, debugActed,
                  reads, sleeps, totalWrites, gaugesPrev, cycleRead >>

\* post_to_influxdb up to the write: the for loop that builds data_points
InfluxBuild ==
  /\ pc = "influx"
  /\ IF BuildRaises(telegram)
     THEN \* float() raises, `except SyntaxError` does not catch it
          /\ pc' = "sleep"
          /\ logged' = "dsmr"
          /\ failed' = TRUE
          /\ UNCHANGED data_points
     ELSE /\ data_points' = BuildPoints(telegram)
          /\ pc' = "write"
          /\ UNCHANGED << logged, failed >>
  /\ debugActed' = (debugActed \/ (Truthy(DEBUG) /\ Appended(telegram, Selected(telegram, 1)) > 0))
  /\ UNCHANGED << cfgVars, args, DEBUG, telegram, gauges, promIdx, written,
                  writeOutcome, exitCause, listening, scraped, reads, sleeps,
                  totalWrites, gaugesPrev, cycleRead >>

\* InfluxWrite with a failed write attempted a second time
InfluxWriteRetry ==
  /\ pc = "write"
  /\ pc' = "sleep"
  /\ \/ /\ writeOutcome' = "ok"
        /\ written' = Append(written, data_points)
        /\ totalWrites' = totalWrites + 1
        /\ debugActed' = (debugActed \/ Truthy(DEBUG))
        /\ UNCHANGED << logged, failed >>
     \/ /\ writeOutcome' = "failed"
        /\ written' = Append(Append(written, data_points), data_points)
        /\ totalWrites' = totalWrites + 2
        /\ logged' = "influx"
        /\ failed' = TRUE
        /\ UNCHANGED debugActed
  /\ UNCHANGED << cfgVars, args, DEBUG, telegram, gauges, promIdx, data_points,
                  exitCause, listening, scraped, reads, sleeps, gaugesPrev,
                  cycleRead >>

\* InfluxWrite with a failed write undoing the cycle's gauge update
InfluxWriteRollback ==
  /\ pc = "write"
  /\ written' = Append(written, data_points)
  /\ totalWrites' = totalWrites + 1
  /\ pc' = "sleep"
  /\ \/ /\ writeOutcome' = "ok"
        /\ debugActed' = (debugActed \/ Truthy(DEBUG))
        /\ UNCHANGED << logged, failed, gauges >>
     \/ /\ writeOutcome' = "failed"
        /\ logged' = "influx"
        /\ failed' = TRUE
        /\ gauges' = gaugesPrev
        /\ UNCHANGED debugActed
  /\ UNCHANGED << cfgVars, args, DEBUG, telegram, promIdx, data_points,
                  exitCause, listening, scraped, reads, sleeps, gaugesPrev,
                  cycleRead >>

\* influxdb_api.write(...) inside its own try/except
InfluxWrite ==
  /\ pc = "write"
  /\ written' = Append(written, data_points)
  /\ totalWrites' = totalWrites + 1
  /\ pc' = "sleep"
  /\ \/ /\ writeOutcome' = "ok"
        /\ debugActed' = (debugActed \/ Truthy(DEBUG))
        /\ UNCHANGED << logged, failed >>
     \/ /\ writeOutcome' = "failed"
        /\ logged' = "influx"
        /\ failed' = TRUE
        /\ UNCHANGED debugActed
  /\ UNCHANGED << cfgVars, args, DEBUG, telegram, gauges, promIdx, data_points,
                  exitCause, listening, scraped, reads, sleeps, gaugesPrev,
                  cycleRead >>

\* time.sleep(int(DSMR_READ_INTERVAL)), outside the try block
Sleep ==
  /\ pc = "sleep"
  /\ IF IntOk(env.DSMR_READ_INTERVAL)
     THEN /\ sleeps' = sleeps + 1
          /\ pc' = IF Truthy(DEBUG) THEN "debug_read" ELSE "read"
          /\ UNCHANGED exitCause
     ELSE /\ pc' = "exited"
          /\ exitCause' = "ConfigurationError"
          /\ UNCHANGED sleeps
  /\ UNCHANGED << cfgVars, args, DEBUG, telegram, gauges, promIdx, data_points,
                  written, writeOutcome, listening, scraped, logged, debugActed,
                  reads, totalWrites, gaugesPrev, cycleRead, failed >>

\* if DEBUG: logging.debug('Sensor data: {}'.format(get_dsmr_readings()))
DebugRead ==
  /\ pc = "debug_read"
  /\ reads' = reads + 1
  /\ debugActed' = TRUE
  /\ \/ /\ pc' = "read"
        /\ UNCHANGED << exitCause, failed >>
     \/ /\ pc' = "exited"
        /\ exitCause' = "SourceUnavailable"
        /\ failed' = TRUE
  /\ UNCHANGED << cfgVars, args, DEBUG, telegram, gauges, promIdx, data_points,
                  written, writeOutcome, listening, scraped, logged, sleeps,
                  totalWrites, gaugesPrev, cycleRead >>

(* ------------------------------------------------------- the listener    *)
\* a scrape of the metrics endpoint reads the gauges as they are
Scrape ==
  /\ listening
  /\ pc /= "exited"
  /\ scraped' = { gauges }
  /\ UNCHANGED << cfgVars, args, DEBUG, pc, telegram, gauges, promIdx,
                  data_points, written, writeOutcome, exitCause, listening,
                  logged, debugActed, histVars >>

Next ==
  \/ ParseArgs
  \/ StartHttpServer
  \/ ApplyDebug
  \/ GetReadings
  \/ PromSet
  \/ InfluxBuild
  \/ InfluxWrite
  \/ Sleep
  \/ DebugRead

Spec == Init /\ [][Next]_vars

\* the default environment, no -d option, the time-series sink on or off,
\* with the listener's scrapes interleaved
InitListener ==
  /\ Init
  /\ env = [ DEBUG |-> "false",
             DSMR_READ_INTERVAL |-> [kind |-> "int", n |-> 60, s |-> ""] ]
  /\ argv.debug = "absent"
  /\ argv.influxdb \in { "absent", "yes" }

NextListener == Next \/ Scrape

SpecListener == InitListener /\ [][NextListener]_vars

(* ------------------------------------------------------- properties      *)
\* the gauges all hold the readings of one telegram (or all the initial 0)
OneTelegram(g) ==
  \E n \in 0..(2 * MaxCycles) :
    \A f \in PromFields :
      g[f] = IF n = 0 THEN 0 ELSE n * Len(TelegramOrder) + Idx(f)

\* the fields of the current telegram whose value float() rejects, among
\* those the publication steps convert
Unparseable ==
  { f \in DOMAIN telegram \cap (PromFields \cup fields) : ~FloatOk(telegram[f]) }

\* the batch of the points of the allow-listed fields that can be converted
RECURSIVE PointsOfParseable(_)
PointsOfParseable(sel) ==
  IF sel = << >> THEN << >>
  ELSE IF FloatOk(telegram[Head(sel)])
       THEN << Point(Head(sel), Float(telegram[Head(sel)])) >>
            \o PointsOfParseable(Tail(sel))
       ELSE PointsOfParseable(Tail(sel))

\* C1: no failure of a source read (at any call of get_dsmr_readings) and no
\* failure of a time-series write terminates the process.
C1_NoSourceOrSinkFailureTerminates ==
  pc = "exited" => exitCause \notin { "SourceUnavailable", "SinkWriteFailure" }

\* C2: when the read at the top of a cycle fails, the publication steps are
\* skipped: every gauge holds the value it had when the cycle began and no
\* write call is made in the cycle, with the time-series sink on or off.
C2_ReadFailureSkipsPublication ==
  cycleRead = "failed" =>
    /\ gauges = gaugesPrev
    /\ written = << >>
    /\ data_points = << >>
    /\ pc \in { "sleep", "debug_read", "read", "exited" }

C2_Witness ==
  /\ cycleRead = "failed"
  /\ pc = "sleep"
  /\ args.influxdb = "True"
  /\ gaugesPrev /= InitGauges

\* C3: when the write call of a cycle fails, every gauge keeps the value
\* post_to_prometheus set from the cycle's telegram (the gauge it does not
\* set keeps its old value), and the failure is logged.
C3_WriteFailureKeepsGauges ==
  writeOutcome = "failed" =>
    /\ \A f \in PromFields : gauges[f] = Float(telegram[f])
    /\ \A g \in Catalog \ PromFields : gauges[g] = gaugesPrev[g]
    /\ logged = "influx"
    /\ exitCause /= "SinkWriteFailure"

C3_Witness ==
  /\ writeOutcome = "failed"
  /\ pc = "sleep"
  /\ gauges /= gaugesPrev
  /\ Len(written) = 1

\* C4: a scrape never observes a half-updated cycle: the gauge values it
\* returns are those of one telegram, never a mix of two.
C4_ScrapeSeesOneCycle ==
  \A s \in scraped : OneTelegram(s)

\* C5: when the telegram lacks a field post_to_prometheus reads, after the
\* cycle every gauge holds the value it had when the cycle began and no write
\* call was made.
C5_IncompleteTelegramLeavesGauges ==
  (pc = "sleep" /\ cycleRead = "ok" /\ ~(PromFields \subseteq DOMAIN telegram))
    => (gauges = gaugesPrev /\ written = << >>)

\* C6: in a run with no failures, at the top of the loop after N sleeps
\* exactly N calls of get_dsmr_readings have been made.
C6_OneReadPerCycle ==
  (pc = "read" /\ ~failed) => reads = sleeps

\* C7: after a successful cycle on a telegram that has every catalog field
\* with a numeric value, every gauge of the catalog holds the value of its
\* telegram reading.
C7_EveryCatalogGaugeSet ==
  ( /\ pc = "sleep"
    /\ cycleRead = "ok"
    /\ logged /= "dsmr"
    /\ Catalog \subseteq DOMAIN telegram
    /\ \A g \in Catalog : FloatOk(telegram[g]) )
    => \A g \in Catalog : gauges[g] = Float(telegram[g])

\* C8: every point of the batch carries the name of a catalog gauge, and the
\* batch holds exactly one point per catalog field of the telegram that is
\* on the allow-list.
C8_AllowListWithinCatalog ==
  pc = "write" =>
    /\ \A i \in 1..Len(data_points) : data_points[i].field \in Catalog
    /\ { data_points[i].field : i \in 1..Len(data_points) }
         = Catalog \cap fields \cap DOMAIN telegram
    /\ Len(data_points) = Cardinality(Catalog \cap fields \cap DOMAIN telegram)

\* C9: when exactly one field's value cannot be converted to a number, the
\* cycle is not aborted: every other gauge is set from the telegram and, with
\* the time-series sink on, one write call is made with the points of the
\* other allow-listed fields.
C9_BadValueDropsOneSample ==
  ( /\ pc = "sleep"
    /\ cycleRead = "ok"
    /\ PromFields \subseteq DOMAIN telegram
    /\ Cardinality(Unparseable) = 1 )
    => /\ \A f \in PromFields \ Unparseable : gauges[f] = Float(telegram[f])
       /\ args.influxdb = "True" =>
            written = << PointsOfParseable(Selected(telegram, 1)) >>

\* C10: when the process terminates because of an invalid configuration
\* value, no source read, no gauge update and no write has happened yet.
C10_ConfigErrorOnlyAtStartup ==
  (pc = "exited" /\ exitCause = "ConfigurationError")
    => (reads = 0 /\ gauges = InitGauges /\ totalWrites = 0)

\* post_to_prometheus has set all its gauges from the current telegram
GaugesUpdated ==
  /\ cycleRead = "ok"
  /\ PromFields \subseteq DOMAIN telegram
  /\ \A f \in PromFields : FloatOk(telegram[f]) /\ gauges[f] = Float(telegram[f])

\* C11: with the time-series sink off no write call is made in the cycle;
\* with it on, a cycle that obtained a telegram and updated the gauges has
\* made exactly one write call, carrying the batch of the cycle's telegram,
\* when it reaches its sleep.
C11_WriteCallsFixedByFlag ==
  /\ args.influxdb /= "True" => (written = << >> /\ totalWrites = 0)
  /\ (args.influxdb = "True" /\ pc = "sleep" /\ GaugesUpdated) =>
       (Len(written) = 1 /\ Len(written[1]) = Len(Selected(telegram, 1)))

\* C12: with DEBUG left at its default and the -d option absent or given as
\* false, no debug-only statement (the per-field logging, the read after the
\* sleep) is ever run.
C12_DebugOffByDefault ==
  (env.DEBUG = "false" /\ argv.debug \in { "absent", "False" }) => ~debugActed

\* C13: no retry and no queue on the push path: a cycle makes at most one
\* write call, the call carries exactly the points built from the telegram
\* read in that cycle, and it is resolved (success or failure) as soon as it
\* is made, before the cycle's sleep.
C13_NoRetryNoQueue ==
  /\ Len(written) <= 1
  /\ totalWrites <= sleeps + 1
  /\ \A i \in 1..Len(written) :
       /\ cycleRead = "ok"
       /\ written[i] = BuildPoints(telegram)
       /\ \A j \in 1..Len(written[i]) :
            /\ written[i][j].field \in DOMAIN telegram
            /\ written[i][j].value = Float(telegram[written[i][j].field])
  /\ (written /= << >>) <=> (writeOutcome \in { "ok", "failed" })
  /\ pc = "write" => written = << >>

C13_Witness ==
  /\ sleeps >= 1
  /\ totalWrites = 2
  /\ writeOutcome = "ok"
  /\ failed
  /\ pc = "sleep"
  /\ Len(written) = 1
  /\ written[1] /= << >>

\* the statements of post_to_prometheus that raise on the current telegram
PromFailing ==
  { i \in 1..Len(PromOrder) :
      PromOrder[i] \notin DOMAIN telegram \/ ~FloatOk(telegram[PromOrder[i]]) }

\* C15: the gauge update precedes the push and gates it: the time-series
\* step is reached and a write made only when post_to_prometheus has set all
\* 16 gauges from the cycle's telegram; an error in the gauge update
\* suppresses the write; and in every cycle that obtained a telegram the
\* gauge update has run up to its end or its first failing statement, with
\* the time-series sink on or off.
C15_GaugeUpdateGatesPush ==
  /\ (pc \in { "influx", "write" } \/ written /= << >>) => GaugesUpdated
  /\ (cycleRead = "ok" /\ pc /= "prom") =>
       IF PromFailing = {}
       THEN GaugesUpdated
       ELSE /\ \A i \in 1..Len(PromOrder) :
                 (\A j \in PromFailing : i < j) =>
                     gauges[PromOrder[i]] = Float(telegram[PromOrder[i]])
            /\ written = << >>
            /\ logged = "dsmr"

C15_Witness ==
  /\ pc = "sleep"
  /\ cycleRead = "ok"
  /\ args.influxdb = "True"
  /\ PromFailing /= {}
  /\ gauges /= gaugesPrev
  /\ written = << >>

\* C14: every cycle ends in a sleep, whatever its outcome: each step of a
\* cycle leads on to the sleep statement, the sleep statement completes a
\* sleep, and the first step of the next cycle comes only after it.
C14_EveryCycleEndsInSleep ==
  [][ /\ (pc \in { "read", "prom", "influx", "write" } /\ pc' /= pc)
           => pc' \in { "prom", "influx", "write", "sleep" }
      /\ (pc = "sleep" /\ pc' /= pc) => sleeps' = sleeps + 1
      /\ (pc' = "read" /\ pc /= "read")
           => (pc \in { "apply_debug", "debug_read" } \/ sleeps' = sleeps + 1)
    ]_vars

====
